---- MODULE Spec2Model ----
(***************************************************************************)
(* A model of csv-to-sqlite.py: the identifier sanitizer (clean_sym,       *)
(* unique_name, sqlite_keywords), the column type inferencer               *)
(* (infer_columns, state_for), the two-pass loader (load_table,            *)
(* DB.drop_and_create_table, DB.insert_rows), the loop of main over the    *)
(* (csv_path, table) pairs and DB.interactive_session.                     *)
(*                                                                         *)
(* A Python str is a sequence of one-character strings, so that the        *)
(* regular-expression substitution, the numeric parsers, the f-string      *)
(* formatting and the scanner of complete statements are computed          *)
(* character by character.                                                 *)
(***************************************************************************)
EXTENDS Integers, Sequences, FiniteSets, TLC

VARIABLES
  \* clean_sym applied to one symbol (the table name of load_table)
  sym, cleaned, sym_pc,
  \* infer_columns
  header, col_names, used_names, column_states, bad_rows,
  nrows, row_len, ncell, i, kinds, columns, inf_pc,
  \* load_table and the database; diags is what infer_columns wrote to stderr
  file, start_offset, reader, db, status, pc, diags,
  \* main: the (csv_path, table) pairs, the loop's position, args.output
  pairs, npair, output,
  \* DB.interactive_session
  buffer, stale, ran, cmd, outcome, cmd_stale, cmd_ran, event, ses_pc,
  \* the rows of one column in two orders, and the states infer_columns
  \* ends with on each
  given, permuted, given_states, permuted_states, perm_pc

sym_vars == <<sym, cleaned, sym_pc>>
inf_vars == <<header, col_names, used_names, column_states, bad_rows,
              nrows, row_len, ncell, i, kinds, columns, inf_pc>>
load_vars == <<file, start_offset, reader, db, status, pc, diags>>
main_vars == <<pairs, npair, output>>
ses_vars == <<buffer, stale, ran, cmd, outcome, cmd_stale, cmd_ran, event,
              ses_pc>>
perm_vars == <<given, permuted, given_states, permuted_states, perm_pc>>
vars == <<sym_vars, inf_vars, load_vars, main_vars, ses_vars, perm_vars>>

----------------------------------------------------------------------------
(* Bounds of the model *)

MaxSymLen == 3      \* longest symbol given to clean_sym
MaxCols == 3        \* most columns of a header given to unique_name
MaxRows == 3        \* most data rows scanned by infer_columns
MaxCellLen == 2     \* longest cell scanned by infer_columns
MaxFileCols == 2    \* most columns of a CSV file
MaxFileRows == 2    \* most data rows of a CSV file given to load_table

----------------------------------------------------------------------------
(* Characters and strings *)

UpperChars == <<"A","B","C","D","E","F","G","H","I","J","K","L","M",
                "N","O","P","Q","R","S","T","U","V","W","X","Y","Z">>
LowerChars == <<"a","b","c","d","e","f","g","h","i","j","k","l","m",
                "n","o","p","q","r","s","t","u","v","w","x","y","z">>
DigitChars == <<"0","1","2","3","4","5","6","7","8","9">>

Range(s) == {s[k] : k \in DOMAIN s}

Letters == Range(UpperChars) \cup Range(LowerChars)
Digits == Range(DigitChars)

\* The byte-order mark U+FEFF, one character of the decoded text.
BOM == "BOM"

\* All strings over chars of length at most n.
Strings(chars, n) == UNION {[1..k -> chars] : k \in 0..n}

\* str.lower() of one character, and of a string.
LowerChar(c) ==
  IF \E k \in DOMAIN UpperChars : UpperChars[k] = c
  THEN LowerChars[CHOOSE k \in DOMAIN UpperChars : UpperChars[k] = c]
  ELSE c

lower(s) == [k \in DOMAIN s |-> LowerChar(s[k])]

\* str(i) for i >= 0, as the f-string f'{s}_{i}' formats it.
RECURSIVE str(_)
str(n) ==
  IF n < 10 THEN <<DigitChars[n + 1]>>
  ELSE str(n \div 10) \o <<DigitChars[(n % 10) + 1]>>

----------------------------------------------------------------------------
(* clean_sym *)

\* sym_re = re.compile(r'[^\w]', flags=re.ASCII): what the pattern does
\* NOT match, the ASCII word characters.
sym_re_word(c) == c \in Letters \cup Digits \cup {"_"}

\* sym_re.sub('_', sym)
sym_re_sub(s) == [k \in DOMAIN s |-> IF sym_re_word(s[k]) THEN s[k] ELSE "_"]

\* sym[0].isnumeric(): after the substitution the string holds ASCII word
\* characters only, and among those the numeric ones are the digits.
isnumeric(c) == c \in Digits

\* Mutants of clean_sym: without the test for a leading digit; with the
\* underscore prepended to whatever does not start with a letter.
clean_sym_nodigit(s) ==
  LET s1 == sym_re_sub(s)
  IN  IF s1 = <<>> THEN <<"_">> ELSE s1

clean_sym_alpha_first(s) ==
  LET s1 == sym_re_sub(s)
      s2 == IF s1 = <<>> THEN <<"_">> ELSE s1
  IN  IF s2[1] \notin Letters THEN <<"_">> \o s2 ELSE s2

clean_sym(s) ==
  LET s1 == sym_re_sub(s)
      s2 == IF s1 = <<>> THEN <<"_">> ELSE s1
  IN  IF isnumeric(s2[1]) THEN <<"_">> \o s2 ELSE s2

----------------------------------------------------------------------------
(* infer_columns: unique_name *)

\* The candidate f'{s}_{i}', and s itself for i = 0.
name_candidate(s, k) == IF k = 0 THEN s ELSE s \o <<"_">> \o str(k)

\* The while loop of unique_name: the first k, from k on, whose candidate
\* is not yet in used.
RECURSIVE unique_loop(_, _, _)
unique_loop(s, k, used) ==
  IF lower(name_candidate(s, k)) \in used
  THEN unique_loop(s, k + 1, used)
  ELSE name_candidate(s, k)

\* Mutant of unique_name: the candidate compared without lower().
unique_name_sensitive(name, used) ==
  LET s == clean_sym(name)
      RECURSIVE loop(_)
      loop(k) == IF name_candidate(s, k) \in used THEN loop(k + 1)
                 ELSE name_candidate(s, k)
  IN  loop(0)

unique_name(name, used) == unique_loop(clean_sym(name), 0, used)

----------------------------------------------------------------------------
(* int(cell) and float(cell) *)

Whitespace == {" "}
Signs == {"+", "-"}

\* str.strip(), which both int() and float() apply to their argument.
RECURSIVE lstrip(_)
lstrip(s) == IF s # <<>> /\ Head(s) \in Whitespace THEN lstrip(Tail(s)) ELSE s

RECURSIVE rstrip(_)
rstrip(s) ==
  IF s # <<>> /\ s[Len(s)] \in Whitespace
  THEN rstrip(SubSeq(s, 1, Len(s) - 1)) ELSE s

strip(s) == rstrip(lstrip(s))

unsigned(s) == IF s # <<>> /\ Head(s) \in Signs THEN Tail(s) ELSE s

\* One or more digits, with single underscores allowed between digits.
digit_part(s) ==
  /\ s # <<>>
  /\ \A k \in DOMAIN s : s[k] \in Digits \cup {"_"}
  /\ s[1] \in Digits
  /\ s[Len(s)] \in Digits
  /\ \A k \in 1..(Len(s) - 1) : ~(s[k] = "_" /\ s[k + 1] = "_")

\* int(cell) raises no ValueError: optional sign, then decimal digits.
int_ok(cell) == digit_part(unsigned(strip(cell)))

\* digits [ . [digits] ]  or  . digits
mantissa(s) ==
  \/ digit_part(s)
  \/ \E k \in DOMAIN s :
       /\ s[k] = "."
       /\ LET ip == SubSeq(s, 1, k - 1)
              fp == SubSeq(s, k + 1, Len(s))
          IN  /\ ip = <<>> \/ digit_part(ip)
              /\ fp = <<>> \/ digit_part(fp)
              /\ ~(ip = <<>> /\ fp = <<>>)

\* nothing, or  e [sign] digits
exponent(s) ==
  \/ s = <<>>
  \/ /\ Head(s) \in {"e", "E"}
     /\ digit_part(unsigned(Tail(s)))

inf_nan(s) ==
  lower(s) \in {<<"i","n","f">>, <<"n","a","n">>,
                <<"i","n","f","i","n","i","t","y">>}

\* float(cell) raises no ValueError.
float_ok(cell) ==
  LET u == unsigned(strip(cell))
  IN  \/ inf_nan(u)
      \/ \E k \in 0..Len(u) :
           /\ mantissa(SubSeq(u, 1, k))
           /\ exponent(SubSeq(u, k + 1, Len(u)))

\* col_names = [unique_name(name) for name in header], with the used_names
\* the comprehension leaves behind.
RECURSIVE unique_names(_, _, _)
unique_names(hdr, names, used) ==
  IF hdr = <<>> THEN [names |-> names, used |-> used]
  ELSE LET si == unique_name(Head(hdr), used)
       IN  unique_names(Tail(hdr), Append(names, si), used \cup {lower(si)})

----------------------------------------------------------------------------
(* infer_columns: column states *)

S_NONE == 0
S_INT == 1
S_FLT == 2
S_TXT == 3

column_state_affinities(state) ==
  CASE state = S_NONE -> "TEXT"
    [] state = S_INT -> "INTEGER"
    [] state = S_FLT -> "REAL"
    [] state = S_TXT -> "TEXT"

\* Mutants of state_for: the int() attempt made in every state; made in
\* state S_NONE only; the final return S_TXT lost.
state_for_int_first(state, cell) ==
  IF int_ok(cell) THEN S_INT
  ELSE IF float_ok(cell) THEN S_FLT
  ELSE S_TXT

state_for_none_only(state, cell) ==
  IF state = S_NONE /\ int_ok(cell) THEN S_INT
  ELSE IF float_ok(cell) THEN S_FLT
  ELSE S_TXT

state_for_no_text(state, cell) ==
  IF (state = S_NONE \/ state = S_INT) /\ int_ok(cell) THEN S_INT
  ELSE IF float_ok(cell) THEN S_FLT
  ELSE state

state_for(state, cell) ==
  IF (state = S_NONE \/ state = S_INT) /\ int_ok(cell) THEN S_INT
  ELSE IF float_ok(cell) THEN S_FLT
  ELSE S_TXT

\* The body of the inner loop: the new state of the column the cell is in.
\* Mutants of cell_step: without the test for an empty cell; without the
\* test for S_TXT.
cell_step_empty_is_text(state, cell) ==
  IF state = S_TXT THEN state ELSE state_for(state, cell)

cell_step_no_sink(state, cell) ==
  IF cell = <<>> THEN state ELSE state_for(state, cell)

cell_step(state, cell) ==
  IF cell = <<>> \/ state = S_TXT THEN state ELSE state_for(state, cell)

Min(a, b) == IF a < b THEN a ELSE b

\* The inner loop over zip(column_states, row), for one whole row.
RECURSIVE scan_row(_, _, _)
scan_row(states, row, k) ==
  IF k > Min(Len(states), Len(row)) THEN states
  ELSE scan_row([states EXCEPT ![k] = cell_step(@, row[k])], row, k + 1)

\* The outer loop over the rows the reader yields.
RECURSIVE scan_rows(_, _)
scan_rows(states, rows) ==
  IF rows = <<>> THEN states
  ELSE scan_rows(scan_row(states, Head(rows), 1), Tail(rows))

\* Mutant of row_is_bad: a row with cells to spare passes.
row_is_bad_short_only(row, col_count) == Len(row) < col_count

\* len(row) != col_count
row_is_bad(row, col_count) == Len(row) # col_count

\* tuple(zip(col_names, affinities))
zip_columns(names, states) ==
  [k \in DOMAIN names |-> <<names[k], column_state_affinities(states[k])>>]

----------------------------------------------------------------------------
(* Inputs *)

\* Characters of the symbols given to clean_sym: letters of each case, a
\* digit, the underscore and a character outside \w.
SymChars == {"a", "A", "s", "x", "y", "1", "_", "$"}
Syms == Strings(SymChars, MaxSymLen)

\* Raw header names: empty, colliding by case, colliding with a generated
\* suffix, cleaned into one another, starting with a digit, a keyword.
HeaderNames ==
  { <<>>, <<"a">>, <<"A">>, <<"a","_","1">>, <<"a","$","1">>,
    <<"1","x">>, <<"$","y">>, <<"a","_">>, <<"A","s">> }
Headers == Strings(HeaderNames, MaxCols)

\* Characters of the cells given to int() and float(): a digit, a sign and
\* the decimal point.
CellChars == {"1", "-", "."}
Cells == Strings(CellChars, MaxCellLen)

\* The header of the files whose rows are scanned: n columns named a.
header_of(n) == [k \in 1..n |-> <<"a">>]

idle_sym == sym = <<>> /\ cleaned = <<>> /\ sym_pc = "idle"

idle_inf ==
  /\ header = <<>> /\ col_names = <<>> /\ used_names = {}
  /\ column_states = <<>> /\ bad_rows = FALSE
  /\ nrows = 0 /\ row_len = 0 /\ ncell = 0 /\ i = 0
  /\ kinds = <<>> /\ columns = <<>> /\ inf_pc = "idle"

idle_load ==
  /\ file = [bom |-> FALSE, rows |-> <<>>] /\ start_offset = 0
  /\ reader = <<>> /\ db = [exists |-> FALSE, columns |-> <<>>, rows |-> <<>>]
  /\ status = 0 /\ pc = "idle" /\ diags = <<>>

idle_main == pairs = <<>> /\ npair = 0 /\ output = TRUE

idle_perm ==
  /\ given = <<>> /\ permuted = <<>> /\ given_states = <<>>
  /\ permuted_states = <<>> /\ perm_pc = "idle"

idle_ses ==
  /\ buffer = <<>> /\ stale = 0 /\ ran = 0
  /\ cmd = <<>> /\ outcome = "none" /\ cmd_stale = 0 /\ cmd_ran = 0
  /\ event = "none" /\ ses_pc = "idle"

----------------------------------------------------------------------------
(* clean_sym on every symbol: load_table's table = clean_sym(table), and   *)
(* the result given to clean_sym once more.                                *)

InitSym ==
  /\ sym \in Syms /\ cleaned = <<>> /\ sym_pc = "raw"
  /\ idle_inf /\ idle_load /\ idle_main /\ idle_ses /\ idle_perm

CleanSym ==
  /\ sym_pc = "raw"
  /\ cleaned' = clean_sym(sym)
  /\ sym_pc' = "cleaned"
  /\ UNCHANGED <<sym, inf_vars, load_vars,
                 main_vars, ses_vars, perm_vars>>

CleanAgain ==
  /\ sym_pc = "cleaned"
  /\ cleaned' = clean_sym(cleaned)
  /\ sym_pc' = "again"
  /\ UNCHANGED <<sym, inf_vars, load_vars,
                 main_vars, ses_vars, perm_vars>>

NextSym == CleanSym \/ CleanAgain

----------------------------------------------------------------------------
(* infer_columns, the header: col_names = [unique_name(name) ...]          *)

InitNames ==
  /\ header \in Headers
  /\ col_names = <<>> /\ used_names = {}
  /\ column_states = <<>> /\ bad_rows = FALSE
  /\ nrows = 0 /\ row_len = 0 /\ ncell = 0 /\ i = 0
  /\ kinds = <<>> /\ columns = <<>> /\ inf_pc = "names"
  /\ idle_sym /\ idle_load /\ idle_main /\ idle_ses
  /\ idle_perm

\* One element of the list comprehension: unique_name(header[k]).
NameColumn ==
  /\ inf_pc = "names"
  /\ Len(col_names) < Len(header)
  /\ LET si == unique_name(header[Len(col_names) + 1], used_names)
     IN  /\ col_names' = Append(col_names, si)
         /\ used_names' = used_names \cup {lower(si)}
  /\ UNCHANGED <<header, column_states, bad_rows, nrows, row_len, ncell, i,
                 kinds, columns, inf_pc, sym_vars, load_vars,
                 main_vars, ses_vars, perm_vars>>

\* col_count = len(col_names); column_states = [S_NONE for _ in col_names]
NamesDone ==
  /\ inf_pc = "names"
  /\ Len(col_names) = Len(header)
  /\ column_states' = [k \in DOMAIN col_names |-> S_NONE]
  /\ inf_pc' = "named"
  /\ UNCHANGED <<header, col_names, used_names, bad_rows, nrows, row_len,
                 ncell, i, kinds, columns, sym_vars, load_vars,
                 main_vars, ses_vars, perm_vars>>

NextNames == NameColumn \/ NamesDone

\* The sanitizer at both places that call it: on a table name, on a header.
InitSanitize == InitSym \/ InitNames

NextSanitize == NextSym \/ NextNames

SpecSanitize == InitSanitize /\ [][NextSanitize]_vars

----------------------------------------------------------------------------
(* infer_columns, the rows: the reader yields each row cell by cell        *)

\* What int() and float() make of a cell.
kind_of(cell) ==
  IF cell = <<>> THEN "empty"
  ELSE IF int_ok(cell) THEN "int"
  ELSE IF float_ok(cell) THEN "float"
  ELSE "text"

col_count == Len(col_names)

InitInfer ==
  /\ \E n \in 0..MaxFileCols :
       /\ header = header_of(n)
       /\ col_names = unique_names(header, <<>>, {}).names
       /\ used_names = unique_names(header, <<>>, {}).used
       /\ column_states = [k \in 1..n |-> S_NONE]
       /\ kinds = [k \in 1..n |-> {}]
  /\ bad_rows = FALSE
  /\ nrows = 0 /\ row_len = 0 /\ ncell = 0 /\ i = 0
  /\ columns = <<>> /\ inf_pc = "rows"
  /\ idle_sym /\ idle_load /\ idle_main /\ idle_ses
  /\ idle_perm

\* for i, row in enumerate(reader, 1): the length check of the next row.
InferNextRow ==
  /\ inf_pc = "rows"
  /\ nrows < MaxRows
  /\ \E n \in 0..(col_count + 1) :
       /\ row_len' = n
       /\ bad_rows' = (bad_rows \/ row_is_bad([k \in 1..n |-> <<>>], col_count))
  /\ nrows' = nrows + 1
  /\ i' = nrows + 1
  /\ ncell' = 0
  /\ inf_pc' = "cells"
  /\ UNCHANGED <<header, col_names, used_names, column_states, kinds,
                 columns, sym_vars, load_vars,
                 main_vars, ses_vars, perm_vars>>

\* for i, (state, cell) in enumerate(zip(column_states, row)): one cell.
InferCellOf(cell) ==
  /\ inf_pc = "cells"
  /\ ncell < Min(col_count, row_len)
  /\ column_states' =
       [column_states EXCEPT ![ncell + 1] = cell_step(@, cell)]
  /\ kinds' = [kinds EXCEPT ![ncell + 1] = @ \cup {kind_of(cell)}]
  /\ i' = ncell
  /\ ncell' = ncell + 1
  /\ UNCHANGED <<header, col_names, used_names, bad_rows, nrows, row_len,
                 columns, inf_pc, sym_vars, load_vars,
                 main_vars, ses_vars, perm_vars>>

\* zip() is exhausted: back to the outer loop.
InferEndRow ==
  /\ inf_pc = "cells"
  /\ ncell = Min(col_count, row_len)
  /\ inf_pc' = "rows"
  /\ UNCHANGED <<header, col_names, used_names, column_states, bad_rows,
                 nrows, row_len, ncell, i, kinds, columns, sym_vars,
                 load_vars,
                 main_vars, ses_vars, perm_vars>>

\* The reader is exhausted: exit(1) on bad rows, else the columns.
InferReturn ==
  /\ inf_pc = "rows"
  /\ IF bad_rows
     THEN inf_pc' = "exit" /\ columns' = columns
     ELSE inf_pc' = "done" /\ columns' = zip_columns(col_names, column_states)
  /\ UNCHANGED <<header, col_names, used_names, column_states, bad_rows,
                 nrows, row_len, ncell, i, kinds, sym_vars, load_vars,
                 main_vars, ses_vars, perm_vars>>

InferCell == \E cell \in Cells : InferCellOf(cell)

NextInfer == InferNextRow \/ InferCell \/ InferEndRow \/ InferReturn

SpecInfer == InitInfer /\ [][NextInfer]_vars

----------------------------------------------------------------------------
(* load_table: the CSV file, the two passes and the database *)

\* Length of the UTF8 BOM in bytes, the unit of seek and tell.
BomLen == 3

FileCells == {<<"1">>, <<"1",".","5">>}

\* The data rows of a file of n columns: a cell short, right, a cell long.
data_rows(n) ==
  UNION {[1..k -> FileCells] : k \in {m \in (n - 1)..(n + 1) : m >= 0}}

\* The rows of a file as the csv module splits its text after the BOM:
\* no row at all, or a header and data rows.
FileRows ==
  {<<>>} \cup
  UNION {{<<header_of(n)>> \o d : d \in Strings(data_rows(n), MaxFileRows)} :
           n \in 0..MaxFileCols}

Files ==
  {[found |-> TRUE, bom |-> b, rows |-> rs] : b \in BOOLEAN, rs \in FileRows}
    \cup {[found |-> FALSE, bom |-> FALSE, rows |-> <<>>]}

no_table == [exists |-> FALSE, columns |-> <<>>, rows |-> <<>>]

\* A table of the same name left by an earlier run.
old_table ==
  [exists |-> TRUE, columns |-> <<<<<<"o","l","d">>, "TEXT">>>>,
   rows |-> <<<<<<"x">>>>>>]

\* The text read from offset 0 of a file with a BOM starts with the BOM:
\* the first cell of the first row begins with it.
glue_bom(rows) ==
  IF rows = <<>> \/ Head(rows) = <<>>
  THEN <<<<<<BOM>>>>>> \o (IF rows = <<>> THEN <<>> ELSE Tail(rows))
  ELSE <<[Head(rows) EXCEPT ![1] = <<BOM>> \o @]>> \o Tail(rows)

\* The rows csv.reader(f) yields when f is at offset, 0 or past the BOM.
rows_at(f, offset) ==
  IF f.bom /\ offset = 0 THEN glue_bom(f.rows) ELSE f.rows

\* lead_char = f.read(1): start_offset is f.tell() after a BOM, else 0.
data_start(f) == IF f.bom THEN BomLen ELSE 0

\* Mutant of header_reader: the header is read and left in the reader.
header_reader_keep(rd) ==
  [empty |-> rd = <<>>,
   header |-> IF rd = <<>> THEN <<>> ELSE Head(rd),
   reader |-> rd]

\* header = next(reader), or StopIteration on an empty input.
header_reader(rd) ==
  [empty |-> rd = <<>>,
   header |-> IF rd = <<>> THEN <<>> ELSE Head(rd),
   reader |-> IF rd = <<>> THEN <<>> ELSE Tail(rd)]

Init ==
  /\ file \in Files
  /\ db \in {no_table, old_table}
  /\ start_offset = 0 /\ reader = <<>> /\ status = 0 /\ pc = "start"
  /\ diags = <<>>
  /\ idle_sym /\ idle_inf /\ idle_main /\ idle_ses /\ idle_perm

\* open(csv_path), the BOM test, and the reader of pass 1.
LoadOpen ==
  /\ pc = "start"
  /\ IF ~file.found
     THEN /\ status' = 1
          /\ pc' = "exit"
          /\ UNCHANGED <<start_offset, reader>>
     ELSE /\ start_offset' = data_start(file)
          /\ reader' = rows_at(file, data_start(file))
          /\ pc' = "opened"
          /\ status' = status
  /\ UNCHANGED <<file, db, sym_vars, inf_vars,
                 diags, main_vars, ses_vars, perm_vars>>

\* Mutant of row_diags: the row's number is counted on from the loop
\* variable i, which the loop over the cells has bound since.
row_diags_count_i(rows, k, i0, n, out) ==
  LET RECURSIVE loop(_, _, _)
      loop(rs, iv, o) ==
        IF rs = <<>> THEN o
        ELSE LET row == Head(rs)
                 i_row == iv + 1
                 cells == Min(n, Len(row))
             IN  loop(Tail(rs),
                      IF cells = 0 THEN i_row ELSE cells - 1,
                      IF row_is_bad(row, n)
                      THEN Append(o, [i |-> i_row, len |-> Len(row),
                                      row |-> row])
                      ELSE o)
  IN  loop(rows, i0, out)

\* What the loop of infer_columns over the rows writes to stderr: for a
\* row the reader yields as its k-th, `error: row {i} has {len(row)}
\* cells:` and the row, when its length is not col_count n.  Both loops
\* bind i (i0 is its value before the row): enumerate(reader, 1) binds it
\* to k, then the loop over the cells of the row binds it to 0, 1, ..
RECURSIVE row_diags(_, _, _, _, _)
row_diags(rows, k, i0, n, out) ==
  IF rows = <<>> THEN out
  ELSE LET row == Head(rows)
           i_row == k
           cells == Min(n, Len(row))
       IN  row_diags(Tail(rows), k + 1,
                     IF cells = 0 THEN i_row ELSE cells - 1, n,
                     IF row_is_bad(row, n)
                     THEN Append(out, [i |-> i_row, len |-> Len(row),
                                       row |-> row])
                     ELSE out)

\* Pass 1: header_reader and infer_columns over all the rows.
LoadInfer ==
  /\ pc = "opened"
  /\ LET hr == header_reader(reader)
         un == unique_names(hr.header, <<>>, {})
         states == scan_rows([k \in DOMAIN un.names |-> S_NONE], hr.reader)
         bad == \E k \in DOMAIN hr.reader :
                  row_is_bad(hr.reader[k], Len(un.names))
     IN  IF hr.empty
         THEN /\ status' = 1
              /\ pc' = "exit"
              /\ UNCHANGED <<reader, diags, inf_vars>>
         ELSE /\ header' = hr.header
              /\ col_names' = un.names
              /\ used_names' = un.used
              /\ column_states' = states
              /\ bad_rows' = bad
              /\ nrows' = Len(hr.reader)
              /\ diags' = diags \o
                            row_diags(hr.reader, 1, 0, Len(un.names), <<>>)
              /\ reader' = <<>>
              /\ inf_pc' = IF bad THEN "exit" ELSE "done"
              /\ columns' = IF bad THEN columns
                            ELSE zip_columns(un.names, states)
              /\ status' = IF bad THEN 1 ELSE status
              /\ pc' = IF bad THEN "exit" ELSE "inferred"
              /\ UNCHANGED <<row_len, ncell, i, kinds>>
  /\ UNCHANGED <<file, start_offset, db, sym_vars, main_vars, ses_vars,
                 perm_vars>>

\* Pass 2: f.seek(start_offset) and header_reader, the header dropped.
LoadRewind ==
  /\ pc = "inferred"
  /\ LET hr == header_reader(rows_at(file, start_offset))
     IN  IF hr.empty
         THEN status' = 1 /\ pc' = "exit" /\ reader' = reader
         ELSE status' = status /\ pc' = "rewound" /\ reader' = hr.reader
  /\ UNCHANGED <<file, start_offset, db, sym_vars, inf_vars,
                 diags, main_vars, ses_vars, perm_vars>>

\* Mutant of LoadDropCreate: no DROP, so CREATE TABLE IF NOT EXISTS leaves
\* a table of that name as it is.
LoadCreateIfNotExists ==
  /\ pc = "rewound"
  /\ IF columns = <<>>
     THEN db' = db /\ status' = 1 /\ pc' = "exit"
     ELSE /\ db' = IF db.exists THEN db
                   ELSE [exists |-> TRUE, columns |-> columns, rows |-> <<>>]
          /\ status' = status
          /\ pc' = "insert"
  /\ UNCHANGED <<file, start_offset, reader, sym_vars, inf_vars,
                 diags, main_vars, ses_vars, perm_vars>>

\* DROP TABLE IF EXISTS, then CREATE TABLE, which SQLite refuses with a
\* syntax error when the column list is empty.
LoadDropCreate ==
  /\ pc = "rewound"
  /\ IF columns = <<>>
     THEN db' = no_table /\ status' = 1 /\ pc' = "exit"
     ELSE /\ db' = [exists |-> TRUE, columns |-> columns, rows |-> <<>>]
          /\ status' = status
          /\ pc' = "insert"
  /\ UNCHANGED <<file, start_offset, reader, sym_vars, inf_vars,
                 diags, main_vars, ses_vars, perm_vars>>

\* executemany: the INSERT of the next row of the reader, which binds one
\* value per placeholder or raises.
LoadInsertRow ==
  /\ pc = "insert"
  /\ reader # <<>>
  /\ IF Len(Head(reader)) # Len(col_names)
     THEN status' = 1 /\ pc' = "exit" /\ UNCHANGED <<db, reader>>
     ELSE /\ db' = [db EXCEPT !.rows = Append(@, Head(reader))]
          /\ reader' = Tail(reader)
          /\ UNCHANGED <<status, pc>>
  /\ UNCHANGED <<file, start_offset, sym_vars, inf_vars,
                 diags, main_vars, ses_vars, perm_vars>>

\* The reader is exhausted: load_table returns.
LoadDone ==
  /\ pc = "insert"
  /\ reader = <<>>
  /\ pc' = "done"
  /\ UNCHANGED <<file, start_offset, reader, db, status, sym_vars, inf_vars,
                 diags, main_vars, ses_vars, perm_vars>>

\* Mutant of LoadInsertFail: the rows inserted so far are rolled back.
LoadInsertFailRollback ==
  /\ pc = "insert"
  /\ reader # <<>>
  /\ db' = [db EXCEPT !.rows = <<>>]
  /\ status' = 1
  /\ pc' = "exit"
  /\ UNCHANGED <<file, start_offset, reader, sym_vars, inf_vars,
                 diags, main_vars, ses_vars, perm_vars>>

\* executemany raises at the next row (the driver's error: a full disk, a
\* locked database): insert_rows prints the statement and re-raises.  The
\* connection is in autocommit mode, so every INSERT before it took effect.
LoadInsertFail ==
  /\ pc = "insert"
  /\ reader # <<>>
  /\ status' = 1
  /\ pc' = "exit"
  /\ UNCHANGED <<file, start_offset, reader, db, sym_vars, inf_vars,
                 diags, main_vars, ses_vars, perm_vars>>

Next ==
  \/ LoadOpen \/ LoadInfer \/ LoadRewind
  \/ LoadDropCreate \/ LoadInsertRow \/ LoadInsertFail \/ LoadDone

Spec == Init /\ [][Next]_vars

----------------------------------------------------------------------------
(* main: the pairs are loaded in order on one connection, then the         *)
(* interactive session is entered when no -output was given.  Every pair   *)
(* names the same table.                                                   *)

MaxPairs == 2       \* most (csv_path, table) pairs of one run

\* The CSV files of a run: missing, empty, one column, two columns behind a
\* BOM, a row with one cell too many, a header without cells.
MainFiles ==
  { [found |-> FALSE, bom |-> FALSE, rows |-> <<>>],
    [found |-> TRUE, bom |-> FALSE, rows |-> <<>>],
    [found |-> TRUE, bom |-> FALSE, rows |-> << <<<<"a">>>>, <<<<"1">>>> >>],
    [found |-> TRUE, bom |-> TRUE,
     rows |-> << <<<<"a">>, <<"a">>>>, <<<<"1">>, <<"1", ".", "5">>>>,
                 <<<<"1">>, <<"1">>>> >>],
    [found |-> TRUE, bom |-> FALSE,
     rows |-> << <<<<"a">>>>, <<<<"1">>, <<"1">>>> >>],
    [found |-> TRUE, bom |-> FALSE, rows |-> << <<>> >>] }

Runs == UNION {[1..n -> MainFiles] : n \in 1..MaxPairs}

\* After parse_args, DB(args.output) and enable_wal_mode: an in-memory
\* database is new, the database at -output may hold the table already.
InitMain ==
  /\ pairs \in Runs
  /\ npair = 0
  /\ output \in BOOLEAN
  /\ db \in (IF output THEN {no_table, old_table} ELSE {no_table})
  /\ file = [found |-> FALSE, bom |-> FALSE, rows |-> <<>>]
  /\ start_offset = 0 /\ reader = <<>> /\ status = 0 /\ pc = "main"
  /\ diags = <<>>
  /\ idle_sym /\ idle_inf /\ idle_ses /\ idle_perm

\* Mutant of MainNextPair: the loop goes on after a load that exited.
MainNextPairAfterExit ==
  /\ pc \in {"main", "done", "exit"}
  /\ npair < Len(pairs)
  /\ npair' = npair + 1
  /\ file' = pairs[npair + 1]
  /\ start_offset' = 0
  /\ reader' = <<>>
  /\ pc' = "start"
  /\ UNCHANGED <<pairs, output, db, status, diags, sym_vars, inf_vars,
                 ses_vars, perm_vars>>

\* for csv_path, table in zip(...): the call of load_table on the next pair.
MainNextPair ==
  /\ pc \in {"main", "done"}
  /\ npair < Len(pairs)
  /\ npair' = npair + 1
  /\ file' = pairs[npair + 1]
  /\ start_offset' = 0
  /\ reader' = <<>>
  /\ pc' = "start"
  /\ UNCHANGED <<pairs, output, db, status, diags, sym_vars, inf_vars,
                 ses_vars, perm_vars>>

\* The loop is over: if not args.output: db.interactive_session()
MainEnd ==
  /\ pc = "done"
  /\ npair = Len(pairs)
  /\ pc' = IF output THEN "finished" ELSE "session"
  /\ UNCHANGED <<pairs, npair, output, file, start_offset, reader, db,
                 status, diags, sym_vars, inf_vars, ses_vars, perm_vars>>

NextMain ==
  \/ MainNextPair \/ MainEnd
  \/ LoadOpen \/ LoadInfer \/ LoadRewind
  \/ LoadDropCreate \/ LoadInsertRow \/ LoadInsertFail \/ LoadDone

SpecMain == InitMain /\ [][NextMain]_vars

----------------------------------------------------------------------------
(* DB.interactive_session: each input line is added to the buffer, and the *)
(* buffer is executed when it is a complete statement.                     *)
(*                                                                         *)
(* stale counts the leading characters of the buffer that were typed       *)
(* before the latest KeyboardInterrupt, ran those that were executed       *)
(* already; cmd is what the latest turn of the loop executed, cmd_stale    *)
(* and cmd_ran are the two counts of the text it was made of.              *)

MaxLineLen == 2     \* longest line typed at the prompt
MaxBufferLen == 4   \* longest text that the buffer holds

\* Characters of a line: a letter of SQL, the end of a statement, the quote
\* of a string literal, a space.
LineChars == {"s", ";", "'", " "}
Lines == Strings(LineChars, MaxLineLen)

\* The scanner of sqlite3.complete_statement: after a ';' outside of a
\* literal it is at the start of a statement, after any other token inside
\* one; a literal that is not closed leaves the text open.
RECURSIVE complete_state(_, _, _)
complete_state(text, state, quoted) ==
  IF text = <<>> THEN (IF quoted THEN "open" ELSE state)
  ELSE LET c == Head(text)
       IN  IF quoted THEN complete_state(Tail(text), state, c # "'")
           ELSE IF c = "'" THEN complete_state(Tail(text), "normal", TRUE)
           ELSE IF c = ";" THEN complete_state(Tail(text), "start", FALSE)
           ELSE IF c \in Whitespace
                THEN complete_state(Tail(text), state, FALSE)
           ELSE complete_state(Tail(text), "normal", FALSE)

is_complete_sqlite_statement(text) ==
  complete_state(text, "invalid", FALSE) = "start"

\* What execute(cmd) ends with: the rows are printed, or sqlite3.Error is
\* caught and reported.
Outcomes == {"ok", "error"}

InitSession ==
  /\ buffer = <<>> /\ stale = 0 /\ ran = 0
  /\ cmd = <<>> /\ outcome = "none" /\ cmd_stale = 0 /\ cmd_ran = 0
  /\ event = "none" /\ ses_pc = "input"
  /\ idle_sym /\ idle_inf /\ idle_load /\ idle_main /\ idle_perm

\* A line that leaves the buffer incomplete: nothing is executed.
SessionKeep(line) ==
  /\ ses_pc = "input"
  /\ Len(buffer) + Len(line) <= MaxBufferLen
  /\ ~is_complete_sqlite_statement(buffer \o line)
  /\ buffer' = buffer \o line
  /\ cmd' = <<>> /\ outcome' = "none" /\ cmd_stale' = 0 /\ cmd_ran' = 0
  /\ event' = "line"
  /\ UNCHANGED <<stale, ran, ses_pc, sym_vars, inf_vars, load_vars,
                 main_vars, perm_vars>>

\* Mutant of SessionExecute: execute does not catch sqlite3.Error.
SessionExecuteRaise(line, oc) ==
  /\ ses_pc = "input"
  /\ Len(buffer) + Len(line) <= MaxBufferLen
  /\ is_complete_sqlite_statement(buffer \o line)
  /\ cmd' = strip(buffer \o line)
  /\ outcome' = oc
  /\ cmd_stale' = stale /\ cmd_ran' = ran
  /\ IF oc = "error"
     THEN buffer' = buffer \o line /\ ses_pc' = "raised"
          /\ UNCHANGED <<stale, ran>>
     ELSE buffer' = <<>> /\ stale' = 0 /\ ran' = 0 /\ ses_pc' = ses_pc
  /\ event' = "line"
  /\ UNCHANGED <<sym_vars, inf_vars, load_vars, main_vars, perm_vars>>

\* A line that completes the buffer: execute(buffer.strip()), which
\* prints the rows or reports the error, then buffer = ''.
SessionExecute(line, oc) ==
  /\ ses_pc = "input"
  /\ Len(buffer) + Len(line) <= MaxBufferLen
  /\ is_complete_sqlite_statement(buffer \o line)
  /\ cmd' = strip(buffer \o line)
  /\ outcome' = oc
  /\ cmd_stale' = stale /\ cmd_ran' = ran
  /\ buffer' = <<>> /\ stale' = 0 /\ ran' = 0
  /\ event' = "line"
  /\ UNCHANGED <<ses_pc, sym_vars, inf_vars, load_vars, main_vars,
                 perm_vars>>

\* A line that completes the buffer, and KeyboardInterrupt is raised in
\* execute once the statement has run: the handler prints, and the
\* assignment buffer = '' is skipped.
SessionExecuteInterrupted(line) ==
  /\ ses_pc = "input"
  /\ Len(buffer) + Len(line) <= MaxBufferLen
  /\ is_complete_sqlite_statement(buffer \o line)
  /\ cmd' = strip(buffer \o line)
  /\ outcome' = "interrupted"
  /\ cmd_stale' = stale /\ cmd_ran' = ran
  /\ buffer' = buffer \o line
  /\ stale' = Len(buffer \o line) /\ ran' = Len(buffer \o line)
  /\ event' = "interrupt"
  /\ UNCHANGED <<ses_pc, sym_vars, inf_vars, load_vars, main_vars,
                 perm_vars>>

\* KeyboardInterrupt raised in input('> '): the handler prints.
SessionInterrupt ==
  /\ ses_pc = "input"
  /\ stale' = Len(buffer)
  /\ cmd' = <<>> /\ outcome' = "none" /\ cmd_stale' = 0 /\ cmd_ran' = 0
  /\ event' = "interrupt"
  /\ UNCHANGED <<buffer, ran, ses_pc, sym_vars, inf_vars, load_vars,
                 main_vars, perm_vars>>

\* EOFError raised in input('> '): print() and return.
SessionEOF ==
  /\ ses_pc = "input"
  /\ cmd' = <<>> /\ outcome' = "none" /\ cmd_stale' = 0 /\ cmd_ran' = 0
  /\ event' = "eof"
  /\ ses_pc' = "returned"
  /\ UNCHANGED <<buffer, stale, ran, sym_vars, inf_vars, load_vars,
                 main_vars, perm_vars>>

SessionLine ==
  \E line \in Lines :
    \/ SessionKeep(line)
    \/ \E oc \in Outcomes : SessionExecute(line, oc)
    \/ SessionExecuteInterrupted(line)

NextSession == SessionLine \/ SessionInterrupt \/ SessionEOF

SpecSession == InitSession /\ [][NextSession]_vars

----------------------------------------------------------------------------
(* infer_columns on the rows of one column, and on the same rows in        *)
(* another order.                                                          *)

MaxPermRows == 3    \* most rows that are put in another order

\* The cells of the column: empty, an integer, a float, a text.
PermCells == {<<>>, <<"1">>, <<"1", ".">>, <<"-">>}

\* The permutations of 1..n.
Perms(n) ==
  {p \in [1..n -> 1..n] : \A a, b \in 1..n : a # b => p[a] # p[b]}

InitPermute ==
  /\ \E n \in 0..MaxPermRows :
       /\ given \in [1..n -> {<<cell>> : cell \in PermCells}]
       /\ \E p \in Perms(n) : permuted = [k \in 1..n |-> given[p[k]]]
  /\ given_states = <<>> /\ permuted_states = <<>> /\ perm_pc = "rows"
  /\ idle_sym /\ idle_inf /\ idle_load /\ idle_main /\ idle_ses

\* The loop of infer_columns over the rows, in each of the two orders.
PermuteScan ==
  /\ perm_pc = "rows"
  /\ given_states' = scan_rows(<<S_NONE>>, given)
  /\ permuted_states' = scan_rows(<<S_NONE>>, permuted)
  /\ perm_pc' = "done"
  /\ UNCHANGED <<given, permuted, sym_vars, inf_vars, load_vars, main_vars,
                 ses_vars>>

NextPermute == PermuteScan

SpecPermute == InitPermute /\ [][NextPermute]_vars

----------------------------------------------------------------------------
(* Claims on the column states (SpecInfer) *)

affinity_of(c) == columns[c][2]

\* C1: no update of a column's state decreases it in the order
\* Unset < Integer < Float < Text, and a column that is Text stays Text.
C1_MonotoneWidening ==
  [][\A c \in DOMAIN column_states :
       /\ column_states'[c] >= column_states[c]
       /\ column_states[c] = S_TXT => column_states'[c] = S_TXT]_vars

\* A column that was widened twice, by an integer, a float and a text cell.
C1_Witness ==
  \E c \in DOMAIN column_states :
    /\ kinds[c] = {"int", "float", "text"}
    /\ column_states[c] = S_TXT

\* C2 as claimed: when infer_columns returns, every column whose non-empty
\* cells all parse as integers has affinity INTEGER.
C2_AllIntegerIsInteger ==
  inf_pc = "done" =>
    \A c \in DOMAIN columns :
      kinds[c] \subseteq {"empty", "int"} => affinity_of(c) = "INTEGER"

\* C2 as amended: the same for every column with at least one non-empty cell.
C2_SomeIntegerIsInteger ==
  inf_pc = "done" =>
    \A c \in DOMAIN columns :
      ("int" \in kinds[c] /\ kinds[c] \subseteq {"empty", "int"})
        => affinity_of(c) = "INTEGER"

C2_Witness ==
  /\ inf_pc = "done"
  /\ nrows = MaxRows
  /\ \E c \in DOMAIN columns :
       kinds[c] = {"empty", "int"} /\ affinity_of(c) = "INTEGER"

\* C3: a column with a non-empty cell that neither int() nor float() parses
\* is in state Text from that cell on, and has affinity TEXT on return.
C3_TextCellIsText ==
  /\ \A c \in DOMAIN column_states :
       "text" \in kinds[c] => column_states[c] = S_TXT
  /\ inf_pc = "done" =>
       \A c \in DOMAIN columns : "text" \in kinds[c] => affinity_of(c) = "TEXT"

C3_Witness ==
  /\ inf_pc = "done"
  /\ \E c \in DOMAIN columns :
       /\ kinds[c] = {"empty", "int", "text"}
       /\ affinity_of(c) = "TEXT"

\* C4: a column with a cell that float() parses and int() does not, and
\* with no cell that float() does not parse, has affinity REAL on return.
C4_FloatCellIsReal ==
  inf_pc = "done" =>
    \A c \in DOMAIN columns :
      ("float" \in kinds[c] /\ "text" \notin kinds[c])
        => affinity_of(c) = "REAL"

C4_Witness ==
  /\ inf_pc = "done"
  /\ nrows = MaxRows
  /\ \E c \in DOMAIN columns :
       /\ kinds[c] = {"int", "float", "empty"}
       /\ affinity_of(c) = "REAL"

\* C5: an empty cell leaves every column state as it is; a column with
\* empty cells only (or no cell at all) is Unset and has affinity TEXT on
\* return.
C5_EmptyCellsAreUnset ==
  /\ [][InferCellOf(<<>>) => column_states' = column_states]_vars
  /\ [](\A c \in DOMAIN column_states :
          kinds[c] \subseteq {"empty"} => column_states[c] = S_NONE)
  /\ [](inf_pc = "done" =>
          \A c \in DOMAIN columns :
            kinds[c] \subseteq {"empty"} => affinity_of(c) = "TEXT")

C5_Witness ==
  /\ inf_pc = "done"
  /\ nrows = MaxRows
  /\ \E c, d \in DOMAIN columns :
       /\ kinds[c] = {"empty"} /\ affinity_of(c) = "TEXT"
       /\ kinds[d] = {"empty", "float"} /\ affinity_of(d) = "REAL"

----------------------------------------------------------------------------
(* Claims on the sanitizer (SpecSanitize) *)

IdentChars == Letters \cup Digits \cup {"_"}

is_identifier(s) ==
  /\ s # <<>>
  /\ \A k \in DOMAIN s : s[k] \in IdentChars
  /\ s[1] \notin Digits

\* The lowered names given to the columns before column p.
used_before(p) == {lower(col_names[q]) : q \in 1..(p - 1)}

pairwise_distinct ==
  \A p, q \in DOMAIN col_names : p # q => lower(col_names[p]) # lower(col_names[q])

\* col_names[p] is s followed by _k for the least k >= 1 not used before p.
least_suffix(p, s) ==
  \E k \in 1..Len(header) :
    /\ col_names[p] = s \o <<"_">> \o str(k)
    /\ lower(col_names[p]) \notin used_before(p)
    /\ \A j \in 1..(k - 1) : lower(s \o <<"_">> \o str(j)) \in used_before(p)

\* No earlier column of the header has the same cleaned name, cases apart.
first_occurrence(p) ==
  \A q \in 1..(p - 1) :
    lower(clean_sym(header[q])) # lower(clean_sym(header[p]))

\* C7 as claimed: the names are pairwise distinct, cases apart; the first
\* occurrence of a cleaned name keeps it, a later one gets the least unused
\* suffix.
C7_FirstOccurrenceKeepsName ==
  /\ pairwise_distinct
  /\ \A p \in DOMAIN col_names :
       IF first_occurrence(p)
       THEN col_names[p] = clean_sym(header[p])
       ELSE least_suffix(p, clean_sym(header[p]))

\* C7 as amended: the names are pairwise distinct, cases apart; a cleaned
\* name that no earlier column was given keeps it, and one that an earlier
\* column was given (as its cleaned name or as a suffixed one) gets the
\* least unused suffix; [a, a, a] gives [a, a_1, a_2].
C7_UnusedNameKeepsName ==
  /\ pairwise_distinct
  /\ \A p \in DOMAIN col_names :
       IF lower(clean_sym(header[p])) \notin used_before(p)
       THEN col_names[p] = clean_sym(header[p])
       ELSE least_suffix(p, clean_sym(header[p]))
  /\ (inf_pc = "named" /\ header = <<<<"a">>, <<"a">>, <<"a">>>>)
       => col_names = <<<<"a">>, <<"a","_","1">>, <<"a","_","2">>>>

\* The first occurrence of a_1 finds the name given to the second a.
C7_Witness ==
  /\ inf_pc = "named"
  /\ header = <<<<"a">>, <<"a">>, <<"a","_","1">>>>
  /\ col_names = <<<<"a">>, <<"a","_","1">>, <<"a","_","1","_","1">>>>

\* C8: clean_sym returns a non-empty name of letters, digits and
\* underscores that starts with no digit: the symbol with an underscore for
\* each other character, '_' for the empty one, and an underscore before a
\* leading digit; 1x gives _1x and $y gives _y.
C8_CleanSymIsIdentifier ==
  sym_pc = "cleaned" =>
    /\ is_identifier(cleaned)
    /\ sym = <<>> => cleaned = <<"_">>
    /\ sym # <<>> =>
         LET d == IF sym[1] \in Digits THEN 1 ELSE 0
         IN  /\ Len(cleaned) = Len(sym) + d
             /\ d = 1 => cleaned[1] = "_"
             /\ \A k \in DOMAIN sym :
                  cleaned[k + d] = IF sym[k] \in IdentChars THEN sym[k] ELSE "_"
    /\ sym = <<"1","x">> => cleaned = <<"_","1","x">>
    /\ sym = <<"$","y">> => cleaned = <<"_","y">>

C8_Witness ==
  /\ sym_pc = "cleaned"
  /\ sym = <<"1","$","x">>
  /\ cleaned = <<"_","1","_","x">>

valid_unique_header ==
  /\ \A p \in DOMAIN header : is_identifier(header[p])
  /\ \A p, q \in DOMAIN header : p # q => lower(header[p]) # lower(header[q])

\* C9: clean_sym applied to its own result returns it unchanged, and a
\* header of identifiers that are pairwise distinct, cases apart, is given
\* back as the column names.
C9_SanitizeIdempotent ==
  /\ sym_pc = "again" => cleaned = clean_sym(sym)
  /\ \A p \in DOMAIN col_names :
       clean_sym(col_names[p]) = col_names[p]
  /\ (inf_pc = "named" /\ valid_unique_header) => col_names = header

C9_Witness ==
  /\ inf_pc = "named"
  /\ valid_unique_header
  /\ Len(header) = MaxCols
  /\ <<"a","_","1">> \in Range(header)
  /\ col_names = header

----------------------------------------------------------------------------
(* Claims on load_table (Spec) *)

\* A data row of the file has not as many cells as the header.
has_bad_row(f) ==
  /\ f.rows # <<>>
  /\ \E k \in 2..Len(f.rows) : Len(f.rows[k]) # Len(f.rows[1])

\* C6: the load of a file with a row of the wrong length ends with a
\* non-zero status once infer_columns has scanned the rows, and before any
\* DROP, CREATE or INSERT: the database stays as it was.
C6_BadRowLeavesDatabase ==
  /\ [](has_bad_row(file) =>
          /\ pc \in {"start", "opened", "exit"}
          /\ pc = "exit" => (status # 0 /\ bad_rows /\ inf_pc = "exit"))
  /\ [][has_bad_row(file) => db' = db]_vars

\* A row of 3 cells under a header of 2 columns; the old table is kept.
C6_Witness ==
  /\ pc = "exit"
  /\ status = 1
  /\ Len(file.rows) = 3
  /\ Len(file.rows[1]) = 2
  /\ Len(file.rows[2]) = 2
  /\ Len(file.rows[3]) = 3
  /\ db = old_table

column_names_of(t) == [k \in DOMAIN t.columns |-> t.columns[k][1]]

\* C10: when load_table returns, the table holds the data rows of the
\* file, in file order, one table row for each: not the header, each row
\* with as many cells as the table has columns, as many rows as pass 1
\* scanned, and columns named as for the same file without a BOM.
C10_TableHoldsDataRows ==
  pc = "done" =>
    /\ status = 0
    /\ db.exists
    /\ db.rows = Tail(file.rows)
    /\ Len(db.rows) = nrows
    /\ \A r \in DOMAIN db.rows : Len(db.rows[r]) = Len(db.columns)
    /\ column_names_of(db) = unique_names(Head(file.rows), <<>>, {}).names

\* id,score with the rows 1,3.5 and 2,4 of the specification, here with a
\* BOM: a,a with the rows 1,1.5 and 1,1.
C10_Witness ==
  /\ pc = "done"
  /\ file.bom
  /\ file.rows = <<header_of(2), <<<<"1">>, <<"1",".","5">>>>,
                   <<<<"1">>, <<"1">>>>>>
  /\ db.columns = <<<<<<"a">>, "INTEGER">>, <<<<"a","_","1">>, "REAL">>>>
  /\ db.rows = <<<<<<"1">>, <<"1",".","5">>>>, <<<<"1">>, <<"1">>>>>>

----------------------------------------------------------------------------
(* The keywords of SQLite and the names the sanitizer returns (SpecSanitize) *)

sqlite_keywords ==
  { <<"A","B","O","R","T">>, <<"A","C","T","I","O","N">>, <<"A","D","D">>,
    <<"A","F","T","E","R">>, <<"A","L","L">>, <<"A","L","T","E","R">>,
    <<"A","N","A","L","Y","Z","E">>, <<"A","N","D">>, <<"A","S">>,
    <<"A","S","C">>, <<"A","T","T","A","C","H">>,
    <<"A","U","T","O","I","N","C","R","E","M","E","N","T">>,
    <<"B","E","F","O","R","E">>, <<"B","E","G","I","N">>,
    <<"B","E","T","W","E","E","N">>, <<"B","Y">>,
    <<"C","A","S","C","A","D","E">>, <<"C","A","S","E">>, <<"C","A","S","T">>,
    <<"C","H","E","C","K">>, <<"C","O","L","L","A","T","E">>,
    <<"C","O","L","U","M","N">>, <<"C","O","M","M","I","T">>,
    <<"C","O","N","F","L","I","C","T">>,
    <<"C","O","N","S","T","R","A","I","N","T">>, <<"C","R","E","A","T","E">>,
    <<"C","R","O","S","S">>,
    <<"C","U","R","R","E","N","T","_","D","A","T","E">>,
    <<"C","U","R","R","E","N","T","_","T","I","M","E">>,
    <<"C","U","R","R","E","N","T","_","T","I","M","E","S","T","A","M","P">>,
    <<"D","A","T","A","B","A","S","E">>, <<"D","E","F","A","U","L","T">>,
    <<"D","E","F","E","R","R","A","B","L","E">>,
    <<"D","E","F","E","R","R","E","D">>, <<"D","E","L","E","T","E">>,
    <<"D","E","S","C">>, <<"D","E","T","A","C","H">>,
    <<"D","I","S","T","I","N","C","T">>, <<"D","R","O","P">>,
    <<"E","A","C","H">>, <<"E","L","S","E">>, <<"E","N","D">>,
    <<"E","S","C","A","P","E">>, <<"E","X","C","E","P","T">>,
    <<"E","X","C","L","U","S","I","V","E">>, <<"E","X","I","S","T","S">>,
    <<"E","X","P","L","A","I","N">>, <<"F","A","I","L">>, <<"F","O","R">>,
    <<"F","O","R","E","I","G","N">>, <<"F","R","O","M">>, <<"F","U","L","L">>,
    <<"G","L","O","B">>, <<"G","R","O","U","P">>, <<"H","A","V","I","N","G">>,
    <<"I","F">>, <<"I","G","N","O","R","E">>,
    <<"I","M","M","E","D","I","A","T","E">>, <<"I","N">>,
    <<"I","N","D","E","X">>, <<"I","N","D","E","X","E","D">>,
    <<"I","N","I","T","I","A","L","L","Y">>, <<"I","N","N","E","R">>,
    <<"I","N","S","E","R","T">>, <<"I","N","S","T","E","A","D">>,
    <<"I","N","T","E","R","S","E","C","T">>, <<"I","N","T","O">>, <<"I","S">>,
    <<"I","S","N","U","L","L">>, <<"J","O","I","N">>, <<"K","E","Y">>,
    <<"L","E","F","T">>, <<"L","I","K","E">>, <<"L","I","M","I","T">>,
    <<"M","A","T","C","H">>, <<"N","A","T","U","R","A","L">>, <<"N","O">>,
    <<"N","O","T">>, <<"N","O","T","N","U","L","L">>, <<"N","U","L","L">>,
    <<"O","F">>, <<"O","F","F","S","E","T">>, <<"O","N">>, <<"O","R">>,
    <<"O","R","D","E","R">>, <<"O","U","T","E","R">>, <<"P","L","A","N">>,
    <<"P","R","A","G","M","A">>, <<"P","R","I","M","A","R","Y">>,
    <<"Q","U","E","R","Y">>, <<"R","A","I","S","E">>,
    <<"R","E","C","U","R","S","I","V","E">>,
    <<"R","E","F","E","R","E","N","C","E","S">>, <<"R","E","G","E","X","P">>,
    <<"R","E","I","N","D","E","X">>, <<"R","E","L","E","A","S","E">>,
    <<"R","E","N","A","M","E">>, <<"R","E","P","L","A","C","E">>,
    <<"R","E","S","T","R","I","C","T">>, <<"R","I","G","H","T">>,
    <<"R","O","L","L","B","A","C","K">>, <<"R","O","W">>,
    <<"S","A","V","E","P","O","I","N","T">>, <<"S","E","L","E","C","T">>,
    <<"S","E","T">>, <<"T","A","B","L","E">>, <<"T","E","M","P">>,
    <<"T","E","M","P","O","R","A","R","Y">>, <<"T","H","E","N">>, <<"T","O">>,
    <<"T","R","A","N","S","A","C","T","I","O","N">>,
    <<"T","R","I","G","G","E","R">>, <<"U","N","I","O","N">>,
    <<"U","N","I","Q","U","E">>, <<"U","P","D","A","T","E">>,
    <<"U","S","I","N","G">>, <<"V","A","C","U","U","M">>,
    <<"V","A","L","U","E","S">>, <<"V","I","E","W">>,
    <<"V","I","R","T","U","A","L">>, <<"W","H","E","N">>,
    <<"W","H","E","R","E">>, <<"W","I","T","H">>,
    <<"W","I","T","H","O","U","T">> }

\* s is a keyword of sqlite_keywords, whatever its case.
is_keyword(s) == \E k \in sqlite_keywords : lower(k) = lower(s)

\* C12 as claimed: a table name or a column name whose sanitized form is a
\* keyword is refused, so that no name returned by clean_sym to load_table
\* and no name put in col_names by unique_name is a keyword.
C12_KeywordIsRefused ==
  /\ sym_pc = "cleaned" => ~is_keyword(cleaned)
  /\ \A k \in DOMAIN col_names : ~is_keyword(col_names[k])

----------------------------------------------------------------------------
(* Claims on the run over several pairs (SpecMain) *)

\* The table that a load of file f alone makes.
table_of(f) ==
  LET hr == header_reader(rows_at(f, data_start(f)))
      un == unique_names(hr.header, <<>>, {})
  IN  [exists |-> TRUE,
       columns |-> zip_columns(un.names,
                     scan_rows([k \in DOMAIN un.names |-> S_NONE], hr.reader)),
       rows |-> hr.reader]

\* C11: when a load into the table returns, whatever was loaded into it
\* before, the table's columns and rows are those of the file just loaded:
\* it has one row per data row of that file.
C11_LatestLoadOnly ==
  pc = "done" =>
    /\ db = table_of(pairs[npair])
    /\ Len(db.rows) = Len(pairs[npair].rows) - 1

\* The second load of a run is over, and the first one had put more
\* columns and more rows into the table.
C11_Witness ==
  /\ pc = "done"
  /\ npair = 2
  /\ Len(table_of(pairs[1]).columns) > Len(db.columns)
  /\ Len(table_of(pairs[1]).rows) > Len(db.rows)

----------------------------------------------------------------------------
(* Claims on the order of the loads and on fatal errors (SpecMain) *)

\* C16: the pairs are loaded one after the other in the order given; a
\* load that ends in an error (a missing or empty file, a bad row, a
\* failed CREATE or INSERT) is the last step of the run; the load of the
\* next pair starts, and the table changes, only while no error has
\* occurred and every earlier pair was loaded to the end; the interactive
\* session is entered only after every pair was loaded without an error.
C16_FatalErrorStopsRun ==
  /\ [](/\ npair >= 1 => file = pairs[npair]
        /\ status # 0 <=> pc = "exit"
        /\ pc \in {"session", "finished"} =>
              status = 0 /\ npair = Len(pairs) /\ db = table_of(pairs[npair])
        /\ pc = "session" => ~output)
  /\ [][/\ pc # "exit"
        /\ npair' # npair =>
              /\ npair' = npair + 1
              /\ status = 0
              /\ npair = 0 \/ pc = "done"
        /\ db' # db => status = 0 /\ pc \in {"rewound", "insert"}]_vars

\* The load of the first pair ended in an error, and the file of the
\* second pair has rows that were not loaded.
C16_Witness ==
  /\ pc = "exit"
  /\ npair = 1
  /\ Len(pairs) = 2
  /\ table_of(pairs[2]).rows # <<>>
  /\ db.rows = <<>>

----------------------------------------------------------------------------
(* Claims on a bulk insert that fails (Spec) *)

\* insert_rows raised: the table was created, and the row that failed and
\* those after it are left in the reader.
insert_failed == pc = "exit" /\ db.exists /\ reader # <<>>

\* C14 as claimed: when the bulk insert fails at some row, none of the rows
\* inserted before the failure remains in the table.
C14_AllRowsOrNone == insert_failed => db.rows = <<>>

\* C14: the connection is in autocommit mode, so when the bulk insert fails
\* at some row the table holds the data rows before that row, in the
\* file's order; it holds every data row when the insert returns.
C14_FailedInsertKeepsPrefix ==
  /\ insert_failed =>
        /\ db.rows \o reader = Tail(rows_at(file, start_offset))
        /\ db.columns = columns
  /\ pc = "done" => db.rows = Tail(rows_at(file, start_offset))

\* The insert failed at a row after the first one.
C14_Witness == insert_failed /\ db.rows # <<>>

----------------------------------------------------------------------------
(* Claims on the diagnostics of infer_columns (Spec) *)

\* The data rows of the file, as pass 1 reads them.
data_of(f) == header_reader(rows_at(f, data_start(f))).reader

\* The 1-based numbers of the data rows whose length is not the header's.
bad_indices(f) ==
  {k \in DOMAIN data_of(f) :
     Len(data_of(f)[k]) # Len(Head(rows_at(f, data_start(f))))}

\* C15: once infer_columns has run, it has scanned every data row, and
\* stderr holds one diagnostic for each bad row and none for another row,
\* in the order of the rows, each with the row's 1-based number, its
\* number of cells and its cells; it exits if and only if a row is bad.
C15_OneDiagnosticPerBadRow ==
  inf_pc \in {"done", "exit"} =>
    /\ nrows = Len(data_of(file))
    /\ Len(diags) = Cardinality(bad_indices(file))
    /\ \A j \in DOMAIN diags :
         /\ diags[j].i \in bad_indices(file)
         /\ diags[j].row = data_of(file)[diags[j].i]
         /\ diags[j].len = Len(diags[j].row)
         /\ j < Len(diags) => diags[j].i < diags[j + 1].i
    /\ inf_pc = "exit" <=> bad_indices(file) # {}
    /\ inf_pc = "exit" => pc = "exit" /\ status = 1

\* Two bad rows were reported, and the first has cells, so that the loop
\* over its cells bound i before the second row was numbered.
C15_Witness ==
  /\ inf_pc = "exit"
  /\ Len(diags) = 2
  /\ diags[1].len >= 1 /\ Len(col_names) >= 1
  /\ diags[2].i = 2

----------------------------------------------------------------------------
(* Claims on the interactive session (SpecSession) *)

\* C13 as claimed: a KeyboardInterrupt clears the pending buffer and the
\* prompt comes again, so that no statement executed later holds text that
\* was typed before the interrupt.
C13_InterruptClearsBuffer ==
  /\ event = "interrupt" => buffer = <<>> /\ ses_pc = "input"
  /\ cmd # <<>> => cmd_stale = 0

\* C17 as claimed: the buffer is executed only when it is a complete
\* statement; a line that leaves it incomplete is added to it and nothing
\* is executed; after a statement that succeeded or raised a database
\* error the buffer is empty; and no text of a statement that was executed
\* is part of a statement executed later.
C17_NoTextExecutedTwice ==
  /\ cmd # <<>> => is_complete_sqlite_statement(cmd)
  /\ (event = "line" /\ cmd = <<>>) =>
        ~is_complete_sqlite_statement(buffer)
  /\ outcome \in Outcomes => buffer = <<>>
  /\ cmd # <<>> => cmd_ran = 0

\* C18: after a statement that raised a database error the error is
\* reported and the loop is at the prompt again; the session is over if and
\* only if the end of input was read, and then it has returned with exit
\* status 0; at every prompt the end of input can be read, and the step
\* that reads it ends the session.
C18_SessionEndsAtEndOfInput ==
  /\ outcome = "error" => ses_pc = "input" /\ cmd # <<>>
  /\ ses_pc \in {"input", "returned"}
  /\ ses_pc = "returned" <=> event = "eof"
  /\ ses_pc = "returned" => status = 0
  /\ ses_pc = "input" => ENABLED SessionEOF

\* A statement has raised a database error, and the prompt is shown again.
C18_Witness ==
  /\ outcome = "error"
  /\ ses_pc = "input"
  /\ buffer = <<>>
  /\ Len(cmd) = MaxBufferLen

----------------------------------------------------------------------------
(* Claims on the order of the rows (SpecPermute) *)

\* The widest of the classes of a set of cell kinds.
widest(ks) ==
  IF "text" \in ks THEN S_TXT
  ELSE IF "float" \in ks THEN S_FLT
  ELSE IF "int" \in ks THEN S_INT
  ELSE S_NONE

\* C19: the rows of a column and any permutation of them leave the column
\* in the same state, which is the widest class among its non-empty cells,
\* and Unset when it has none.
C19_RowOrderIsIrrelevant ==
  perm_pc = "done" =>
    /\ permuted_states = given_states
    /\ given_states =
         <<widest({kind_of(given[k][1]) : k \in DOMAIN given})>>

\* A float comes before an integer in one order and after it in the other.
C19_Witness ==
  /\ perm_pc = "done"
  /\ Len(given) = MaxPermRows
  /\ kind_of(given[1][1]) = "float" /\ kind_of(given[2][1]) = "int"
  /\ kind_of(permuted[1][1]) = "int" /\ kind_of(permuted[2][1]) = "float"
  /\ given_states = <<S_FLT>>

====
